---- MODULE Spec2Model ----
(***************************************************************************)
(* A model of the tmcl crate: the status decoder, the enumeration codecs   *)
(* of the TMCM axis-parameter catalog, the generic axis-parameter          *)
(* instructions, the frame serializers of Command, and the synchronous     *)
(* request/reply exchange of TmcmModule::write_command.                    *)
(***************************************************************************)
EXTENDS Integers, Sequences, FiniteSets, TLC

VARIABLES call, ret, pc, instr, reply, result, decodeAttempted, ops, cell,
          cellKind, wire

vars == <<call, ret, pc, instr, reply, result, decodeAttempted, ops, cell,
          cellKind, wire>>

codecVars == <<call, ret>>

execVars == <<pc, instr, reply, result, decodeAttempted, ops, cell, cellKind, wire>>

(***************************************************************************)
(* Bounds of the model.                                                    *)
(***************************************************************************)
\* motor numbers range over 0..MaxMotor
MaxMotor == 1
\* module addresses range over 1..MaxAddress
MaxAddress == 2
\* number of callers sharing one interface in SpecShared
NumCallers == 2

Byte == 0..255

Motors == 0..MaxMotor

Addresses == 1..MaxAddress

(***************************************************************************)
(* Rust values: Result<T, E>, a returned value, a panic (abort).           *)
(***************************************************************************)
None == [kind |-> "None"]

Ok(x) == [kind |-> "Ok", val |-> x]

Err(e) == [kind |-> "Err", err |-> e]

Return(x) == [kind |-> "Return", val |-> x]

Panic == [kind |-> "Panic"]

\* Result::unwrap: the value of Ok, a panic on Err
Unwrap(r) == IF r.kind = "Ok" THEN Return(r.val) ELSE Panic

\* the unit value ()
Unit == "()"

(***************************************************************************)
(* Status and its decoding from the status byte (lib.rs).                  *)
(***************************************************************************)
StatusOk(v) == [res |-> "Ok", variant |-> v]

StatusErr(v) == [res |-> "Err", variant |-> v]

AllStatus == {StatusOk(v) : v \in {"Ok", "LoadedIntoEEPROM"}} \cup
             {StatusErr(v) : v \in {"WrongChecksum", "InvalidCommand", "WrongType",
                                    "InvalidValue", "EEPROMLocked",
                                    "CommandNotAvailable"}}

\* a decoder whose default arm yields a status
StatusTryFromDefaultOk(id) ==
    CASE id = 100 -> Ok(StatusOk("Ok"))
      [] id = 101 -> Ok(StatusOk("LoadedIntoEEPROM"))
      [] id = 1 -> Ok(StatusErr("WrongChecksum"))
      [] id = 2 -> Ok(StatusErr("InvalidCommand"))
      [] id = 3 -> Ok(StatusErr("WrongType"))
      [] id = 4 -> Ok(StatusErr("InvalidValue"))
      [] id = 5 -> Ok(StatusErr("EEPROMLocked"))
      [] id = 6 -> Ok(StatusErr("CommandNotAvailable"))
      [] OTHER -> Ok(StatusOk("Ok"))

StatusTryFrom(id) ==
    CASE id = 100 -> Ok(StatusOk("Ok"))
      [] id = 101 -> Ok(StatusOk("LoadedIntoEEPROM"))
      [] id = 1 -> Ok(StatusErr("WrongChecksum"))
      [] id = 2 -> Ok(StatusErr("InvalidCommand"))
      [] id = 3 -> Ok(StatusErr("WrongType"))
      [] id = 4 -> Ok(StatusErr("InvalidValue"))
      [] id = 5 -> Ok(StatusErr("EEPROMLocked"))
      [] id = 6 -> Ok(StatusErr("CommandNotAvailable"))
      [] OTHER -> Err("NonValidErrorCode")

\* Status::is_ok
IsOk(s) == s.res = "Ok"

(***************************************************************************)
(* MicrostepResolution (axis parameter 140).                               *)
(***************************************************************************)
MicrostepResolutions == {"Full", "Half", "Micro4", "Micro8", "Micro16", "Micro32",
                         "Micro64", "Micro128", "Micro256"}

\* `*self as u8`: the discriminant of the enum
MicrostepDiscriminant(v) ==
    CASE v = "Full" -> 0
      [] v = "Half" -> 1
      [] v = "Micro4" -> 2
      [] v = "Micro8" -> 3
      [] v = "Micro16" -> 4
      [] v = "Micro32" -> 5
      [] v = "Micro64" -> 6
      [] v = "Micro128" -> 7
      [] v = "Micro256" -> 8

MicrostepTryFromU8(v) ==
    CASE v = 0 -> Ok("Full")
      [] v = 1 -> Ok("Half")
      [] v = 2 -> Ok("Micro4")
      [] v = 3 -> Ok("Micro8")
      [] v = 4 -> Ok("Micro16")
      [] v = 5 -> Ok("Micro32")
      [] v = 6 -> Ok("Micro64")
      [] v = 7 -> Ok("Micro128")
      [] v = 8 -> Ok("Micro256")
      [] OTHER -> Err("()")

\* Return for MicrostepResolution: from_operand reads array[0] and unwraps
MicrostepFromOperand(array) == Unwrap(MicrostepTryFromU8(array[1]))

\* WriteableAxisParameter for MicrostepResolution: operand
MicrostepOperand(v) == <<MicrostepDiscriminant(v), 0, 0, 0>>

(***************************************************************************)
(* ReferenceSearchMode (axis parameter 193).                               *)
(***************************************************************************)
SearchModes == {"LeftSwitch", "RightThenLeftSwitch", "RightThenLeftFromBothSides",
                "LeftFromBothSides"}

HomeSearchModes == {"NegativeThenLeft", "PositiveThenRight", "Positive", "Negative"}

LimitSwitchSearch(m, swap) ==
    [variant |-> "LimitSwitchSearch", search_mode |-> m, swap_left_right |-> swap]

HomeSearch(m, invert) ==
    [variant |-> "HomeSearch", search_mode |-> m, invert_home_switch |-> invert]

ReferenceSearchModes ==
    {LimitSwitchSearch(m, s) : m \in SearchModes, s \in BOOLEAN} \cup
    {HomeSearch(m, i) : m \in HomeSearchModes, i \in BOOLEAN}

\* `*search_mode as u8` for SearchMode
SearchModeDiscriminant(m) ==
    CASE m = "LeftSwitch" -> 1
      [] m = "RightThenLeftSwitch" -> 2
      [] m = "RightThenLeftFromBothSides" -> 3
      [] m = "LeftFromBothSides" -> 4

\* `*search_mode as u8` for HomeSearchMode
HomeSearchModeDiscriminant(m) ==
    CASE m = "NegativeThenLeft" -> 5
      [] m = "PositiveThenRight" -> 6
      [] m = "Positive" -> 7
      [] m = "Negative" -> 8

\* v & 0b_0000_0111
Lsb(v) == v % 8

\* v & 64 > 0
Bit64(v) == (v \div 64) % 2 = 1

\* v & 128 > 0
Bit128(v) == (v \div 128) % 2 = 1

ReferenceSearchTryFromU8(v) ==
    LET lsb == Lsb(v) IN
    IF lsb <= 4
    THEN CASE lsb = 1 -> Ok(LimitSwitchSearch("LeftSwitch", Bit64(v)))
           [] lsb = 2 -> Ok(LimitSwitchSearch("RightThenLeftSwitch", Bit64(v)))
           [] lsb = 3 -> Ok(LimitSwitchSearch("RightThenLeftFromBothSides", Bit64(v)))
           [] lsb = 4 -> Ok(LimitSwitchSearch("LeftFromBothSides", Bit64(v)))
           [] OTHER -> Err("()")
    ELSE CASE lsb = 5 -> Ok(HomeSearch("NegativeThenLeft", Bit128(v)))
           [] lsb = 6 -> Ok(HomeSearch("PositiveThenRight", Bit128(v)))
           [] lsb = 7 -> Ok(HomeSearch("Positive", Bit128(v)))
           [] lsb = 8 -> Ok(HomeSearch("Negative", Bit128(v)))
           [] OTHER -> Err("()")

\* Return for ReferenceSearchMode: from_operand reads array[0] and unwraps
ReferenceSearchFromOperand(array) == Unwrap(ReferenceSearchTryFromU8(array[1]))

\* WriteableAxisParameter for ReferenceSearchMode: operand (u8 addition)
ReferenceSearchOperand(v) ==
    LET value == IF v.variant = "LimitSwitchSearch"
                 THEN (SearchModeDiscriminant(v.search_mode)
                       + (IF v.swap_left_right THEN 64 ELSE 0)) % 256
                 ELSE (HomeSearchModeDiscriminant(v.search_mode)
                       + (IF v.invert_home_switch THEN 128 ELSE 0)) % 256
    IN <<value, 0, 0, 0>>

(***************************************************************************)
(* The TMCM axis-parameter catalog (modules/tmcm/axis_parameters.rs):      *)
(* number, native type and the TMCM capability markers of each entry.      *)
(***************************************************************************)
Entry(n, t, r, w) == [number |-> n, type |-> t, readable |-> r, writeable |-> w]

Catalog ==
    [TargetPosition |-> Entry(0, "i32", TRUE, TRUE),
     ActualPosition |-> Entry(1, "i32", TRUE, TRUE),
     TargetSpeed |-> Entry(2, "i32", TRUE, TRUE),
     ActualSpeed |-> Entry(3, "i32", TRUE, FALSE),
     MaximumPositioningSpeed |-> Entry(4, "u32", TRUE, TRUE),
     MaximumAcceleration |-> Entry(5, "u32", TRUE, TRUE),
     AbsoluteMaxCurrent |-> Entry(6, "u16", TRUE, TRUE),
     StandbyCurrent |-> Entry(7, "u16", TRUE, TRUE),
     PositionReachedFlag |-> Entry(8, "bool", TRUE, FALSE),
     HomeSwitchState |-> Entry(9, "bool", TRUE, FALSE),
     RightLimitSwitchState |-> Entry(10, "bool", TRUE, FALSE),
     LeftLimitSwitchState |-> Entry(11, "bool", TRUE, FALSE),
     RightLimitSwitchDisable |-> Entry(12, "bool", TRUE, TRUE),
     LeftLimitSwitchDisable |-> Entry(13, "bool", TRUE, TRUE),
     MaximumDeceleration |-> Entry(17, "u32", TRUE, TRUE),
     MicrostepResolution |-> Entry(140, "MicrostepResolution", TRUE, TRUE),
     RampDivisor |-> Entry(153, "u8", TRUE, TRUE),
     PulseDivisor |-> Entry(154, "u8", TRUE, TRUE),
     ReferenceSearchMode |-> Entry(193, "ReferenceSearchMode", TRUE, TRUE),
     ReferenceSearchSpeed |-> Entry(194, "u32", TRUE, TRUE),
     ReferenceSwitchSpeed |-> Entry(195, "u32", TRUE, TRUE),
     EndSwitchDistance |-> Entry(196, "i32", TRUE, FALSE),
     LastReferencePosition |-> Entry(197, "i32", TRUE, FALSE),
     BoostCurrent |-> Entry(200, "u8", TRUE, TRUE),
     PowerDownDelay |-> Entry(214, "u16", TRUE, TRUE)]

AxisParameters == DOMAIN Catalog

\* AxisParameter::NUMBER
NUMBER(T) == Catalog[T].number

\* `impl ReadableTmcmAxisParameter for T {}`
ReadableTmcmAxisParameter(T) == Catalog[T].readable

\* `impl WriteableTmcmAxisParameter for T {}`
WriteableTmcmAxisParameter(T) == Catalog[T].writeable

(***************************************************************************)
(* The generic module's axis-parameter instructions                        *)
(* (modules/generic/instructions.rs): plain structs over a raw parameter   *)
(* number.                                                                 *)
(***************************************************************************)
GenericSAP(motor_number, parameter_number, operand) ==
    [module |-> "generic", struct |-> "SAP", motor_number |-> motor_number,
     parameter_number |-> parameter_number, operand |-> operand]

GenericGAP(motor_number, parameter_number) ==
    [module |-> "generic", struct |-> "GAP", motor_number |-> motor_number,
     parameter_number |-> parameter_number]

GenericSTAP(motor_number, parameter_number) ==
    [module |-> "generic", struct |-> "STAP", motor_number |-> motor_number,
     parameter_number |-> parameter_number]

\* the struct RSAP; RSAP::new does not build it
GenericRSAP(motor_number, parameter_number) ==
    [module |-> "generic", struct |-> "RSAP", motor_number |-> motor_number,
     parameter_number |-> parameter_number]

SAPNew(motor_number, parameter_number, operand) ==
    GenericSAP(motor_number, parameter_number, operand)

GAPNew(motor_number, parameter_number) == GenericGAP(motor_number, parameter_number)

STAPNew(motor_number, parameter_number) == GenericSTAP(motor_number, parameter_number)

\* RSAP::new is declared `-> STAP` and returns `STAP { .. }`
RSAPNew(motor_number, parameter_number) == GenericSTAP(motor_number, parameter_number)

ZeroOperand == <<0, 0, 0, 0>>

(***************************************************************************)
(* The typed axis-parameter instructions SAP<T>, GAP<T>, STAP<T>, RSAP<T>  *)
(* that modules/tmcm/instructions.rs re-exports from the crate's           *)
(* instructions module, and the native-value codec of the scalar catalog   *)
(* entries that the axis_param_r!/axis_param_rw! macros generate.          *)
(***************************************************************************)
TmcmSAP(motor_number, T, parameter) ==
    [module |-> "tmcm", struct |-> "SAP", T |-> T, motor_number |-> motor_number,
     parameter |-> parameter]

TmcmGAP(motor_number, T) ==
    [module |-> "tmcm", struct |-> "GAP", T |-> T, motor_number |-> motor_number]

TmcmSTAP(motor_number, T) ==
    [module |-> "tmcm", struct |-> "STAP", T |-> T, motor_number |-> motor_number]

TmcmRSAP(motor_number, T) ==
    [module |-> "tmcm", struct |-> "RSAP", T |-> T, motor_number |-> motor_number]

\* big-endian, right-aligned: an i32 in two's complement, a u32 kept as its
\* two 16-bit halves <<high, low>>, narrower types zero-extended
ScalarOperand(type, v) ==
    CASE type = "i32" ->
           LET n == IF v < 0 THEN (v + 2147483647) + 1 ELSE v
               top == IF v < 0 THEN 128 ELSE 0
           IN <<top + n \div 16777216, (n \div 65536) % 256, (n \div 256) % 256, n % 256>>
      [] type = "u32" -> <<v[1] \div 256, v[1] % 256, v[2] \div 256, v[2] % 256>>
      [] type = "u16" -> <<0, 0, v \div 256, v % 256>>
      [] type = "u8" -> <<0, 0, 0, v>>
      [] type = "bool" -> <<0, 0, 0, IF v THEN 1 ELSE 0>>

\* the inverse: the low bytes of the native width, an i32 sign-extended
ScalarFromOperand(type, array) ==
    CASE type = "i32" ->
           LET low == (array[1] % 128) * 16777216 + array[2] * 65536
                      + array[3] * 256 + array[4]
           IN Return(IF array[1] >= 128 THEN (low - 2147483647) - 1 ELSE low)
      [] type = "u32" -> Return(<<array[1] * 256 + array[2], array[3] * 256 + array[4]>>)
      [] type = "u16" -> Return(array[3] * 256 + array[4])
      [] type = "u8" -> Return(array[4])
      [] type = "bool" -> Return(array[4] # 0)

(***************************************************************************)
(* The Instruction and DirectInstruction traits, dispatched on the type.   *)
(***************************************************************************)
\* Instruction::INSTRUCTION_NUMBER of the generic structs
GenericInstructionNumber(i) ==
    CASE i.struct = "SAP" -> 5
      [] i.struct = "GAP" -> 6
      [] i.struct = "STAP" -> 7
      [] i.struct = "RSAP" -> 8

\* Instruction::INSTRUCTION_NUMBER of the typed structs
TmcmInstructionNumber(i) ==
    CASE i.struct = "SAP" -> 5
      [] i.struct = "GAP" -> 6
      [] i.struct = "STAP" -> 7
      [] i.struct = "RSAP" -> 8

\* Instruction::operand of the generic structs
GenericOperand(i) == IF i.struct = "SAP" THEN i.operand ELSE ZeroOperand

\* WriteableAxisParameter::operand of a catalog value
ParameterOperand(T, v) ==
    CASE Catalog[T].type = "MicrostepResolution" -> MicrostepOperand(v)
      [] Catalog[T].type = "ReferenceSearchMode" -> ReferenceSearchOperand(v)
      [] OTHER -> ScalarOperand(Catalog[T].type, v)

\* Instruction::operand of the typed structs
TmcmOperand(i) == IF i.struct = "SAP" THEN ParameterOperand(i.T, i.parameter) ELSE ZeroOperand

InstructionNumber(i) ==
    IF i.module = "generic" THEN GenericInstructionNumber(i) ELSE TmcmInstructionNumber(i)

\* Instruction::type_number of the generic structs
GenericTypeNumber(i) == i.parameter_number

\* Instruction::type_number of the typed structs: the parameter's id
TmcmTypeNumber(i) == NUMBER(i.T)

TypeNumber(i) == IF i.module = "generic" THEN GenericTypeNumber(i) ELSE TmcmTypeNumber(i)

\* Instruction::motor_bank_number
MotorBankNumber(i) == i.motor_number

Operand(i) == IF i.module = "generic" THEN GenericOperand(i) ELSE TmcmOperand(i)

\* DirectInstruction::Return of the generic structs
GenericReturnType(i) == IF i.struct = "GAP" THEN "[u8; 4]" ELSE "()"

\* DirectInstruction::Return of the typed structs: GAP<T> returns T
TmcmReturnType(i) == IF i.struct = "GAP" THEN Catalog[i.T].type ELSE "()"

ReturnType(i) == IF i.module = "generic" THEN GenericReturnType(i) ELSE TmcmReturnType(i)

\* <Instruction::Return as Return>::from_operand
FromOperand(type, array) ==
    CASE type = "()" -> Return(Unit)
      [] type = "[u8; 4]" -> Return(array)
      [] type = "MicrostepResolution" -> MicrostepFromOperand(array)
      [] type = "ReferenceSearchMode" -> ReferenceSearchFromOperand(array)
      [] OTHER -> ScalarFromOperand(type, array)

\* the impls without their bounds on T
TmcmInstructionUnbounded(i) == i.module = "tmcm"

\* `impl<T: ...TmcmAxisParameter> TmcmInstruction for SAP<T>` and the like:
\* the bound write_command puts on its instruction
TmcmInstruction(i) ==
    /\ i.module = "tmcm"
    /\ CASE i.struct = "SAP" -> WriteableTmcmAxisParameter(i.T)
         [] i.struct = "GAP" -> ReadableTmcmAxisParameter(i.T)
         [] i.struct = "STAP" -> WriteableTmcmAxisParameter(i.T)
         [] i.struct = "RSAP" -> WriteableTmcmAxisParameter(i.T)

(***************************************************************************)
(* Command and its two serializers (lib.rs).                               *)
(***************************************************************************)
CommandNew(module_address, instruction) ==
    [module_address |-> module_address, instruction |-> instruction]

\* Command::serialize: the body is unimplemented!()
Serialize(cmd) == Panic

\* Command::serialize_can
SerializeCan(cmd) ==
    Return(<<InstructionNumber(cmd.instruction),
             TypeNumber(cmd.instruction),
             MotorBankNumber(cmd.instruction),
             Operand(cmd.instruction)[1],
             Operand(cmd.instruction)[2],
             Operand(cmd.instruction)[3],
             Operand(cmd.instruction)[4]>>)

\* unsigned byte sum modulo 256
RECURSIVE ByteSum(_)
ByteSum(s) == IF s = <<>> THEN 0 ELSE (Head(s) + ByteSum(Tail(s))) % 256

(***************************************************************************)
(* Inputs the model draws from.                                            *)
(***************************************************************************)
\* raw parameter numbers handed to the generic constructors
ParamNumbers == {3, 4, 8, 140, 193, 197, 255}

SampleOperands == {ZeroOperand, <<0, 0, 3, 232>>, <<255, 255, 255, 255>>}

GenericInstructions ==
    {SAPNew(m, p, o) : m \in Motors, p \in ParamNumbers, o \in SampleOperands} \cup
    {GAPNew(m, p) : m \in Motors, p \in ParamNumbers} \cup
    {STAPNew(m, p) : m \in Motors, p \in ParamNumbers} \cup
    {RSAPNew(m, p) : m \in Motors, p \in ParamNumbers}

\* values of a catalog entry handed to SAP<T>
ParameterValues(T) ==
    CASE Catalog[T].type = "MicrostepResolution" -> MicrostepResolutions
      [] Catalog[T].type = "ReferenceSearchMode" -> ReferenceSearchModes
      [] Catalog[T].type = "bool" -> BOOLEAN
      [] Catalog[T].type = "i32" -> {-1, 1000}
      [] Catalog[T].type = "u32" -> {<<0, 1000>>}
      [] Catalog[T].type = "u16" -> {255}
      [] Catalog[T].type = "u8" -> {13}

\* the typed instructions (for motor 0) a caller may write down, well-typed
\* for write_command or not
TypedInstructions ==
    UNION {{TmcmSAP(0, T, v) : v \in ParameterValues(T)} \cup
           {TmcmGAP(0, T), TmcmSTAP(0, T), TmcmRSAP(0, T)} : T \in AxisParameters}

ReplyBytes == {4, 8, 9, 134}

ReplyOperands == {<<b, 0, 0, 0>> : b \in ReplyBytes} \cup {<<0, 0, 3, 232>>}

\* every reply the transport can deliver
Replies == [status : AllStatus, command_number : {6}, operand : ReplyOperands]

TransportErrors == {"io"}

(***************************************************************************)
(* Applications of the pure functions, each to one input: call names the   *)
(* function and its argument, ret holds what it returned.                  *)
(***************************************************************************)
StatusTryFromCall ==
    \E id \in Byte :
        /\ call.f = "none"
        /\ call' = [f |-> "Status::try_from", arg |-> id]
        /\ ret' = StatusTryFrom(id)
        /\ UNCHANGED execVars

MicrostepRoundTripCall ==
    \E v \in MicrostepResolutions :
        /\ call.f = "none"
        /\ call' = [f |-> "MicrostepResolution::from_operand(operand)", arg |-> v]
        /\ ret' = MicrostepFromOperand(MicrostepOperand(v))
        /\ UNCHANGED execVars

ReferenceSearchRoundTripCall ==
    \E v \in ReferenceSearchModes :
        /\ call.f = "none"
        /\ call' = [f |-> "ReferenceSearchMode::from_operand(operand)", arg |-> v]
        /\ ret' = ReferenceSearchFromOperand(ReferenceSearchOperand(v))
        /\ UNCHANGED execVars

\* the enumeration-valued entries of the catalog and their values
EnumParameters == {"MicrostepResolution", "ReferenceSearchMode"}

EnumValues(T) ==
    IF T = "MicrostepResolution" THEN MicrostepResolutions ELSE ReferenceSearchModes

\* reply operands an enumeration is decoded from: an ordinal in the first
\* byte, in the last byte, or in neither
EnumReplyOperands ==
    {<<0, 0, 0, 6>>, <<6, 0, 0, 0>>, <<0, 0, 0, 4>>, <<4, 0, 0, 0>>, <<0, 0, 0, 0>>,
     <<0, 0, 0, 134>>}

\* Command::serialize_can on a Set-Axis-Parameter of an enumeration value
EnumSerializeCanCall ==
    \E a \in Addresses, T \in EnumParameters :
        \E v \in EnumValues(T) :
            /\ call.f = "none"
            /\ call' = [f |-> "Command::serialize_can(SAP<enum>)",
                        arg |-> [T |-> T, value |-> v]]
            /\ ret' = SerializeCan(CommandNew(a, TmcmSAP(0, T, v)))
            /\ UNCHANGED execVars

\* from_operand of an enumeration on a reply operand
EnumFromOperandCall ==
    \E T \in EnumParameters, array \in EnumReplyOperands :
        /\ call.f = "none"
        /\ call' = [f |-> "from_operand", arg |-> [T |-> T, operand |-> array]]
        /\ ret' = FromOperand(Catalog[T].type, array)
        /\ UNCHANGED execVars

ReferenceSearchTryFromU8Call ==
    \E b \in Byte :
        /\ call.f = "none"
        /\ call' = [f |-> "ReferenceSearchMode::try_from_u8", arg |-> b]
        /\ ret' = ReferenceSearchTryFromU8(b)
        /\ UNCHANGED execVars

SAPNewCall ==
    \E m \in Motors, p \in ParamNumbers, o \in SampleOperands :
        /\ call.f = "none"
        /\ call' = [f |-> "SAP::new",
                    arg |-> [motor_number |-> m, parameter_number |-> p, operand |-> o]]
        /\ ret' = SAPNew(m, p, o)
        /\ UNCHANGED execVars

GAPNewCall ==
    \E m \in Motors, p \in ParamNumbers :
        /\ call.f = "none"
        /\ call' = [f |-> "GAP::new", arg |-> [motor_number |-> m, parameter_number |-> p]]
        /\ ret' = GAPNew(m, p)
        /\ UNCHANGED execVars

STAPNewCall ==
    \E m \in Motors, p \in ParamNumbers :
        /\ call.f = "none"
        /\ call' = [f |-> "STAP::new", arg |-> [motor_number |-> m, parameter_number |-> p]]
        /\ ret' = STAPNew(m, p)
        /\ UNCHANGED execVars

RSAPNewCall ==
    \E m \in Motors, p \in ParamNumbers :
        /\ call.f = "none"
        /\ call' = [f |-> "RSAP::new", arg |-> [motor_number |-> m, parameter_number |-> p]]
        /\ ret' = RSAPNew(m, p)
        /\ UNCHANGED execVars

SerializeCall ==
    \E a \in Addresses, i \in GenericInstructions :
        /\ call.f = "none"
        /\ call' = [f |-> "Command::serialize", arg |-> CommandNew(a, i)]
        /\ ret' = Serialize(CommandNew(a, i))
        /\ UNCHANGED execVars

SerializeCanCall ==
    \E a \in Addresses, i \in GenericInstructions :
        /\ call.f = "none"
        /\ call' = [f |-> "Command::serialize_can", arg |-> CommandNew(a, i)]
        /\ ret' = SerializeCan(CommandNew(a, i))
        /\ UNCHANGED execVars

\* both serializers on one command, the bus frame under a second address too
SerializeBothCall ==
    \E a \in Addresses, b \in Addresses, i \in GenericInstructions :
        /\ call.f = "none"
        /\ call' = [f |-> "Command::serialize_can/serialize", arg |-> CommandNew(a, i)]
        /\ ret' = [can |-> SerializeCan(CommandNew(a, i)),
                   can_other_address |-> SerializeCan(CommandNew(b, i)),
                   addressed |-> Serialize(CommandNew(a, i))]
        /\ UNCHANGED execVars

(***************************************************************************)
(* TmcmModule::write_command (modules/tmcm/mod.rs), one caller per module, *)
(* the modules sharing one interface behind one cell.                      *)
(***************************************************************************)
Callers == 1..NumCallers

\* TmcmModule.address of the module caller c uses
ModuleAddress(c) == c

Free == 0

Poisoned == -1

Error(name, detail) == [error |-> name, detail |-> detail]

\* a borrow that never fails: the guard is handed out whatever the cell holds
BorrowSucceedsAlways == TRUE

\* InteriorMut::borrow_int_mut gives the guard: the cell is neither borrowed
\* (locked) nor poisoned
BorrowSucceeds == cell = Free

\* InteriorMut::borrow_int_mut gives up: RefCell::try_borrow_mut on a borrowed
\* cell, Mutex::lock on a poisoned one (on a locked one it waits)
BorrowFails == cell # Free /\ (cellKind = "RefCell" \/ cell = Poisoned)

\* the guard `interface` goes out of scope
Release == Free

\* a guard that is dropped as soon as transmit_command has returned
GuardDroppedAfterTransmit(c) == Free

\* the guard `interface` lives on after transmit_command, to the end of
\* write_command
GuardAfterTransmit(c) == c

\* the guard is dropped by a panic's unwinding: a Mutex is poisoned by it
ReleaseByPanic == IF cellKind = "Mutex" THEN Poisoned ELSE Free

\* write_command, up to and including borrow_int_mut().or(..)?
Borrow(c, i) ==
    /\ pc[c] = "idle"
    /\ TmcmInstruction(i)
    /\ BorrowSucceeds \/ BorrowFails
    /\ instr' = [instr EXCEPT ![c] = i]
    /\ reply' = [reply EXCEPT ![c] = None]
    /\ decodeAttempted' = [decodeAttempted EXCEPT ![c] = FALSE]
    /\ ops' = [ops EXCEPT ![c] = <<>>]
    /\ IF BorrowSucceeds
       THEN /\ cell' = c
            /\ pc' = [pc EXCEPT ![c] = "holding"]
            /\ result' = [result EXCEPT ![c] = None]
       ELSE /\ cell' = cell
            /\ pc' = pc
            /\ result' = [result EXCEPT ![c] = Err(Error("InterfaceUnavailable", ""))]
    /\ UNCHANGED <<cellKind, wire, call, ret>>

\* interface.transmit_command(&Command::new(self.address, instruction))
\*     .map_err(|e| Error::InterfaceError(e))?
Transmit(c, r) ==
    /\ pc[c] = "holding"
    /\ ops' = [ops EXCEPT ![c] = Append(@, "transmit_command")]
    /\ IF r.kind = "Ok"
       THEN /\ wire' = [module_address |-> ModuleAddress(c),
                        frame |-> SerializeCan(CommandNew(ModuleAddress(c), instr[c])).val]
            /\ pc' = [pc EXCEPT ![c] = "awaiting"]
            /\ cell' = GuardAfterTransmit(c)
            /\ result' = result
       ELSE /\ result' = [result EXCEPT ![c] = Err(Error("InterfaceError", r.err))]
            /\ pc' = [pc EXCEPT ![c] = "idle"]
            /\ cell' = Release
            /\ wire' = wire
    /\ UNCHANGED <<instr, reply, decodeAttempted, cellKind, call, ret>>

\* a match that first compares the reply's command_number with the number of
\* the instruction sent
MatchStatusCheckingCommandNumber(i, rep) ==
    IF rep.command_number # InstructionNumber(i)
    THEN Return(Err(Error("UnexpectedReply", "")))
    ELSE IF IsOk(rep.status)
         THEN LET d == FromOperand(ReturnType(i), rep.operand)
              IN IF d.kind = "Panic" THEN Panic ELSE Return(Ok(d.val))
         ELSE Return(Err(Error("ErrStatus", rep.status.variant)))

\* the match on reply.status()
MatchStatus(i, rep) ==
    IF IsOk(rep.status)
    THEN LET d == FromOperand(ReturnType(i), rep.operand)
         IN IF d.kind = "Panic" THEN Panic ELSE Return(Ok(d.val))
    ELSE Return(Err(Error("ErrStatus", rep.status.variant)))

\* a receive that is tried again after a transport error: the call stays in
\* its exchange and invokes receive_reply once more
ReceiveRetrying(c, r) ==
    /\ pc[c] = "awaiting"
    /\ ops' = [ops EXCEPT ![c] = Append(@, "receive_reply")]
    /\ IF r.kind = "Err"
       THEN UNCHANGED <<pc, cell, wire, result, reply, decodeAttempted>>
       ELSE LET out == MatchStatus(instr[c], r.val)
            IN /\ wire' = None
               /\ reply' = [reply EXCEPT ![c] = r.val]
               /\ decodeAttempted' = [decodeAttempted EXCEPT ![c] = IsOk(r.val.status)]
               /\ IF out.kind = "Panic"
                  THEN /\ pc' = [pc EXCEPT ![c] = "panicked"]
                       /\ cell' = ReleaseByPanic
                       /\ result' = result
                  ELSE /\ pc' = [pc EXCEPT ![c] = "idle"]
                       /\ cell' = Release
                       /\ result' = [result EXCEPT ![c] = out.val]
    /\ UNCHANGED <<instr, cellKind, call, ret>>

\* interface.receive_reply().map_err(|e| Error::InterfaceError(e))?
\* and the match on the reply's status, to the return
Receive(c, r) ==
    /\ pc[c] = "awaiting"
    /\ ops' = [ops EXCEPT ![c] = Append(@, "receive_reply")]
    /\ wire' = None
    /\ IF r.kind = "Err"
       THEN /\ result' = [result EXCEPT ![c] = Err(Error("InterfaceError", r.err))]
            /\ pc' = [pc EXCEPT ![c] = "idle"]
            /\ cell' = Release
            /\ UNCHANGED <<reply, decodeAttempted>>
       ELSE LET out == MatchStatus(instr[c], r.val)
            IN /\ reply' = [reply EXCEPT ![c] = r.val]
               /\ decodeAttempted' = [decodeAttempted EXCEPT ![c] = IsOk(r.val.status)]
               /\ IF out.kind = "Panic"
                  THEN /\ pc' = [pc EXCEPT ![c] = "panicked"]
                       /\ cell' = ReleaseByPanic
                       /\ result' = result
                  ELSE /\ pc' = [pc EXCEPT ![c] = "idle"]
                       /\ cell' = Release
                       /\ result' = [result EXCEPT ![c] = out.val]
    /\ UNCHANGED <<instr, cellKind, call, ret>>

\* a caller builds a generic-module instruction; it is no TmcmInstruction
GenericNew(c, i) ==
    /\ pc[c] = "idle"
    /\ instr' = [instr EXCEPT ![c] = i]
    /\ reply' = [reply EXCEPT ![c] = None]
    /\ result' = [result EXCEPT ![c] = None]
    /\ decodeAttempted' = [decodeAttempted EXCEPT ![c] = FALSE]
    /\ ops' = [ops EXCEPT ![c] = <<>>]
    /\ UNCHANGED <<pc, cell, cellKind, wire, call, ret>>

\* the generic instructions a caller of Spec builds
BuiltGenericInstructions ==
    {i \in GenericInstructions : i.motor_number = 0 /\ GenericOperand(i) = ZeroOperand}

\* the instruction caller c has built, if any
BuiltBy(c) == {i \in {instr[c]} : i # None}

TransmitResults == {Ok(Unit)} \cup {Err(e) : e \in TransportErrors}

ReceiveResults(replies) == {Ok(rep) : rep \in replies} \cup {Err(e) : e \in TransportErrors}

Init ==
    /\ call = [f |-> "none"]
    /\ ret = None
    /\ pc = [c \in Callers |-> "idle"]
    /\ instr = [c \in Callers |-> None]
    /\ reply = [c \in Callers |-> None]
    /\ result = [c \in Callers |-> None]
    /\ decodeAttempted = [c \in Callers |-> FALSE]
    /\ ops = [c \in Callers |-> <<>>]
    /\ cell = Free
    /\ cellKind \in {"RefCell", "Mutex"}
    /\ wire = None

(***************************************************************************)
(* Spec: one module on the interface, every typed instruction, every       *)
(* reply.                                                                  *)
(***************************************************************************)
Next ==
    \/ \E i \in BuiltGenericInstructions : GenericNew(1, i)
    \/ \E i \in TypedInstructions \cup BuiltBy(1) : Borrow(1, i)
    \/ \E r \in TransmitResults : Transmit(1, r)
    \/ \E r \in ReceiveResults(Replies) : Receive(1, r)

Spec == Init /\ [][Next]_vars

(***************************************************************************)
(* SpecShared: NumCallers modules share the interface; few instructions    *)
(* and replies.                                                            *)
(***************************************************************************)
SharedInstructions ==
    {TmcmGAP(0, "MicrostepResolution"), TmcmSAP(0, "MicrostepResolution", "Micro16")}

SharedReplies ==
    [status : {StatusOk("Ok"), StatusErr("InvalidValue")}, command_number : {5, 6},
     operand : {<<4, 0, 0, 0>>, <<9, 0, 0, 0>>}]

NextShared ==
    \E c \in Callers :
        \/ \E i \in SharedInstructions : Borrow(c, i)
        \/ \E r \in TransmitResults : Transmit(c, r)
        \/ \E r \in ReceiveResults(SharedReplies) : Receive(c, r)

SpecShared == Init /\ [][NextShared]_vars

(***************************************************************************)
(* SpecCodec: the pure functions applied to inputs.                        *)
(***************************************************************************)
NextCodec ==
    \/ StatusTryFromCall
    \/ MicrostepRoundTripCall
    \/ ReferenceSearchRoundTripCall
    \/ ReferenceSearchTryFromU8Call
    \/ EnumSerializeCanCall
    \/ EnumFromOperandCall
    \/ SAPNewCall
    \/ GAPNewCall
    \/ STAPNewCall
    \/ RSAPNewCall
    \/ SerializeCall
    \/ SerializeCanCall
    \/ SerializeBothCall

SpecCodec == Init /\ [][NextCodec]_vars

(***************************************************************************)
(* Properties.                                                             *)
(***************************************************************************)
StatusBytes == {100, 101, 1, 2, 3, 4, 5, 6}

ErrStatusInOrder == <<"WrongChecksum", "InvalidCommand", "WrongType", "InvalidValue",
                      "EEPROMLocked", "CommandNotAvailable">>

\* C1: Status::try_from decodes 100 to Ok, 101 to LoadedIntoEEPROM, 1..6 to the
\* six ErrStatus in order, and fails with NonValidErrorCode on every other byte.
C1_StatusDecodingExact ==
    call.f = "Status::try_from" =>
        LET b == call.arg IN
        /\ b = 100 => ret = Ok(StatusOk("Ok"))
        /\ b = 101 => ret = Ok(StatusOk("LoadedIntoEEPROM"))
        /\ b \in 1..6 => ret = Ok(StatusErr(ErrStatusInOrder[b]))
        /\ b \notin StatusBytes => ret = Err("NonValidErrorCode")

C1_Witness ==
    /\ call.f = "Status::try_from"
    /\ call.arg = 7
    /\ ret = Err("NonValidErrorCode")

\* C2: for every MicrostepResolution and every ReferenceSearchMode value v,
\* from_operand(operand(v)) returns v.
C2_RoundTrip ==
    call.f \in {"MicrostepResolution::from_operand(operand)",
                "ReferenceSearchMode::from_operand(operand)"} =>
        ret = Return(call.arg)

\* the bytes of the ReferenceSearchMode table: a base mode 1..4, 64 added or
\* not, or a base mode 5..8, 128 added or not
ReferenceSearchTable ==
    {m + f : m \in 1..4, f \in {0, 64}} \cup {m + f : m \in 5..8, f \in {0, 128}}

\* C3: ReferenceSearchMode::try_from_u8 succeeds only on bytes of the table, and
\* encoding what it decoded gives the byte back.
C3_DecodesOnlyEncodableBytes ==
    call.f = "ReferenceSearchMode::try_from_u8" =>
        /\ ret.kind = "Ok" => ReferenceSearchOperand(ret.val)[1] = call.arg
        /\ call.arg \notin ReferenceSearchTable => ret.kind = "Err"

\* C4: write_command never reaches an abort (panic), whatever reply the
\* transport delivers.
C4_NeverAborts == \A c \in Callers : pc[c] # "panicked"

ReadOnlyIds == {3, 8, 9, 10, 11, 196, 197}

WriteInstructionNumbers == {5, 7, 8}

\* C5 as claimed: no Set-, Store- or Restore-Axis-Parameter instruction over a
\* read-only parameter id can be constructed, and none is transmitted.
C5_NoReadOnlyWriteConstructed ==
    /\ \A c \in Callers :
           instr[c] # None =>
               ~(InstructionNumber(instr[c]) \in WriteInstructionNumbers
                 /\ TypeNumber(instr[c]) \in ReadOnlyIds)
    /\ wire # None =>
           ~(wire.frame[1] \in WriteInstructionNumbers /\ wire.frame[2] \in ReadOnlyIds)

\* C5 as amended: no instruction that TmcmModule::write_command accepts, and no
\* frame it transmits, has instruction number 5, 7 or 8 and a read-only
\* parameter id in its type-number field.
C5_NoReadOnlyWriteTransmitted ==
    /\ \A c \in Callers :
           pc[c] # "idle" \/ ops[c] # <<>> =>
               ~(InstructionNumber(instr[c]) \in WriteInstructionNumbers
                 /\ TypeNumber(instr[c]) \in ReadOnlyIds)
    /\ wire # None =>
           ~(wire.frame[1] \in WriteInstructionNumbers /\ wire.frame[2] \in ReadOnlyIds)

C5_Witness ==
    /\ wire # None
    /\ wire.frame[1] \in WriteInstructionNumbers
    /\ pc[1] = "awaiting"

\* C6: SAP::new, GAP::new, STAP::new and RSAP::new give instructions numbered
\* 5, 6, 7 and 8, with the parameter id as type number, the motor number as
\* motor-bank number, and the given operand (SAP) or a zero operand.
C6_ConstructorLayout ==
    call.f \in {"SAP::new", "GAP::new", "STAP::new", "RSAP::new"} =>
        /\ InstructionNumber(ret) = (CASE call.f = "SAP::new" -> 5
                                       [] call.f = "GAP::new" -> 6
                                       [] call.f = "STAP::new" -> 7
                                       [] call.f = "RSAP::new" -> 8)
        /\ TypeNumber(ret) = call.arg.parameter_number
        /\ MotorBankNumber(ret) = call.arg.motor_number
        /\ Operand(ret) = (IF call.f = "SAP::new" THEN call.arg.operand ELSE ZeroOperand)

\* C7: Command::serialize returns the 9-byte frame [module_address,
\* instruction_number, type_number, motor_bank_number, operand, checksum], the
\* checksum being the sum of bytes 0..7 modulo 256.
C7_SerializeAddressedFrame ==
    call.f = "Command::serialize" =>
        /\ ret.kind = "Return"
        /\ Len(ret.val) = 9
        /\ SubSeq(ret.val, 1, 8) =
               <<call.arg.module_address, InstructionNumber(call.arg.instruction),
                 TypeNumber(call.arg.instruction),
                 MotorBankNumber(call.arg.instruction)>> \o Operand(call.arg.instruction)
        /\ ret.val[9] = ByteSum(SubSeq(ret.val, 1, 8))

\* C8: Command::serialize_can yields the 7 bytes [instruction_number,
\* type_number, motor_bank_number, operand], whatever the module address, and
\* they are bytes 1..7 of the frame Command::serialize yields.
C8_BusFrameIsAddressedFrameMiddle ==
    call.f = "Command::serialize_can/serialize" =>
        /\ ret.can.kind = "Return"
        /\ Len(ret.can.val) = 7
        /\ ret.can.val = <<InstructionNumber(call.arg.instruction),
                           TypeNumber(call.arg.instruction),
                           MotorBankNumber(call.arg.instruction)>>
                         \o Operand(call.arg.instruction)
        /\ ret.can_other_address = ret.can
        /\ ret.addressed.kind = "Return"
        /\ SubSeq(ret.addressed.val, 2, 8) = ret.can.val

\* C9: once a reply is received, write_command returns success exactly when
\* the reply's status is Ok or LoadedIntoEEPROM, and returns the reply's
\* ErrStatus, with no operand decoding attempted, otherwise.
C9_OutcomeByStatusAlone ==
    \A c \in Callers :
        reply[c] # None =>
            /\ pc[c] = "idle"
            /\ result[c].kind = "Ok" <=> IsOk(reply[c].status)
            /\ ~IsOk(reply[c].status) =>
                   /\ result[c] = Err(Error("ErrStatus", reply[c].status.variant))
                   /\ ~decodeAttempted[c]

\* C10: while one call is between its transmit_command and its receive_reply,
\* no other call on the interface performs a transport operation.
C10_OneExchangeInFlight ==
    [][\A c \in Callers, d \in Callers :
           (c # d /\ pc[c] = "awaiting" /\ ops'[d] # ops[d]) => ops'[d] = <<>>]_vars

C10_Witness ==
    \E c \in Callers, d \in Callers :
        /\ c # d
        /\ pc[c] = "awaiting"
        /\ pc[d] = "idle"
        /\ result[d] = Err(Error("InterfaceUnavailable", ""))

\* the transport operations of one exchange, in order
Exchange == <<"transmit_command", "receive_reply">>

\* the last write_command call of caller c has returned
Completed(c) == pc[c] = "idle" /\ result[c] # None

IsInterfaceError(res) == res.kind = "Err" /\ res.err.error = "InterfaceError"

InterfaceUnavailable == Err(Error("InterfaceUnavailable", ""))

\* the operations of a call are a prefix of one exchange: no second transmit,
\* no second receive
NoRetry(c) == Len(ops[c]) <= 2 /\ ops[c] = SubSeq(Exchange, 1, Len(ops[c]))

\* C12 as claimed: the transport operations of every write_command call are
\* exactly <transmit_command> when the transmit fails, the call then failing
\* with the transport's error, and exactly <transmit_command, receive_reply>
\* otherwise; never a second transmit or receive.
C12_EveryCallTransmits ==
    \A c \in Callers :
        /\ NoRetry(c)
        /\ Completed(c) =>
               /\ ops[c] = <<"transmit_command">> \/ ops[c] = Exchange
               /\ ops[c] = <<"transmit_command">> => IsInterfaceError(result[c])

\* a call is before, in, or after its exchange, and a returned call that was
\* not rejected at the borrow has transmitted
C12_OpsByPosition ==
    \A c \in Callers :
        /\ NoRetry(c)
        /\ pc[c] = "holding" => ops[c] = <<>>
        /\ pc[c] = "awaiting" => ops[c] = <<"transmit_command">>
        /\ pc[c] = "panicked" => ops[c] = Exchange
        /\ Completed(c) =>
               /\ result[c] = InterfaceUnavailable <=> ops[c] = <<>>
               /\ ops[c] = <<"transmit_command">> => IsInterfaceError(result[c])
               /\ result[c].kind = "Ok" \/ reply[c] # None => ops[c] = Exchange

\* a call leaves "holding" by its one transmit, returning the transport's error
\* if it failed, and leaves "awaiting" by its one receive
C12_OpsByStep ==
    \A c \in Callers :
        /\ pc[c] = "holding" /\ pc'[c] # "holding" =>
               /\ ops'[c] = <<"transmit_command">>
               /\ pc'[c] = "idle" => IsInterfaceError(result'[c])
               /\ pc'[c] \in {"idle", "awaiting"}
        /\ pc[c] = "awaiting" /\ ops'[c] # ops[c] =>
               /\ ops'[c] = Exchange
               /\ pc'[c] \in {"idle", "panicked"}

\* C12 as amended: a write_command call that got the interface issues exactly
\* <transmit_command> when the transmit fails (and returns the transport's
\* error) and exactly <transmit_command, receive_reply> otherwise, with no
\* second transmit or receive after a receive error or an ErrStatus reply; a
\* call rejected with InterfaceUnavailable issues no transport operation.
C12_SequentialExchangeNoRetry == []C12_OpsByPosition /\ [][C12_OpsByStep]_vars

C12_Witness ==
    \E c \in Callers, d \in Callers :
        /\ c # d
        /\ Completed(c)
        /\ ops[c] = Exchange
        /\ reply[c] # None
        /\ result[c] = Err(Error("ErrStatus", "InvalidValue"))
        /\ Completed(d)
        /\ ops[d] = <<"transmit_command">>
        /\ IsInterfaceError(result[d])

\* the ordinal of a ReferenceSearchMode value: the mode's number, 64 added for
\* swap_left_right, 128 for invert_home_switch
ReferenceSearchOrdinal(v) ==
    IF v.variant = "LimitSwitchSearch"
    THEN SearchModeDiscriminant(v.search_mode) + (IF v.swap_left_right THEN 64 ELSE 0)
    ELSE HomeSearchModeDiscriminant(v.search_mode) + (IF v.invert_home_switch THEN 128 ELSE 0)

EnumOrdinal(T, v) ==
    IF T = "MicrostepResolution" THEN MicrostepDiscriminant(v) ELSE ReferenceSearchOrdinal(v)

\* C13: for every MicrostepResolution and ReferenceSearchMode value the operand
\* bytes serialize_can emits are three zero bytes and then the ordinal, and
\* decoding reads the ordinal from that last byte: [0,0,0,6] decodes to
\* HomeSearch{PositiveThenRight, invert_home_switch = false}.
C13_EnumOperandRightAligned ==
    /\ call.f = "Command::serialize_can(SAP<enum>)" =>
           /\ ret.kind = "Return"
           /\ SubSeq(ret.val, 4, 7) = <<0, 0, 0, EnumOrdinal(call.arg.T, call.arg.value)>>
    /\ call.f = "from_operand" /\ SubSeq(call.arg.operand, 1, 3) = <<0, 0, 0>> =>
           \A v \in EnumValues(call.arg.T) :
               EnumOrdinal(call.arg.T, v) = call.arg.operand[4] => ret = Return(v)

\* another call holds the interface
HeldByOther(c) == \E d \in Callers : d # c /\ cell = d /\ pc[d] \in {"holding", "awaiting"}

\* caller c enters write_command
CallStep(c) == \E i \in SharedInstructions : Borrow(c, i)

\* the step returned InterfaceUnavailable at once, with no transport operation,
\* and left the interface and every other call as they were
RejectedOutcome(c) ==
    /\ result'[c] = InterfaceUnavailable
    /\ ops'[c] = <<>>
    /\ pc'[c] = "idle"
    /\ UNCHANGED <<cell, cellKind, wire>>
    /\ \A d \in Callers \ {c} :
           /\ pc'[d] = pc[d]
           /\ ops'[d] = ops[d]
           /\ instr'[d] = instr[d]
           /\ reply'[d] = reply[d]
           /\ result'[d] = result[d]

Rejected(c) == CallStep(c) /\ RejectedOutcome(c)

Admitted(c) == CallStep(c) /\ ~RejectedOutcome(c)

\* C14 as claimed: when another exchange holds the interface at the start of
\* write_command, the call does not block: it returns InterfaceUnavailable,
\* performs no transmit_command and no receive_reply, and leaves the exchange
\* in flight undisturbed.
C14_RejectedWithoutBlocking ==
    \A c \in Callers :
        pc[c] = "idle" /\ HeldByOther(c) => ENABLED Rejected(c) /\ ~ENABLED Admitted(c)

\* C14 as amended: when another exchange holds the interface at the start of
\* write_command, a call on a RefCell-shared interface returns
\* InterfaceUnavailable at once, with no transport operation and without
\* disturbing the exchange in flight; a call on a Mutex-shared interface waits
\* for the exchange in flight to release the interface.
C14_RejectedOrWaiting ==
    \A c \in Callers :
        pc[c] = "idle" /\ HeldByOther(c) =>
            IF cellKind = "RefCell"
            THEN ENABLED Rejected(c) /\ ~ENABLED Admitted(c)
            ELSE ~ENABLED CallStep(c)

C14_Witness ==
    \E c \in Callers, d \in Callers :
        /\ c # d
        /\ cellKind = "RefCell"
        /\ cell = d
        /\ pc[d] = "awaiting"
        /\ wire # None
        /\ wire.module_address = ModuleAddress(d)
        /\ ops[d] = <<"transmit_command">>
        /\ pc[c] = "idle"
        /\ result[c] = InterfaceUnavailable
        /\ ops[c] = <<>>

\* no write_command call is under way on the interface
NoCallUnderWay == \A d \in Callers : pc[d] \notin {"holding", "awaiting"}

\* C15: the borrow taken by write_command is released on every exit path, so
\* whenever no call is under way the interface is free, a following
\* write_command is not rejected with InterfaceUnavailable, and nothing of an
\* earlier call is left in the executor.
C15_InterfaceFreeBetweenCalls ==
    NoCallUnderWay =>
        /\ cell = Free
        /\ \A c \in Callers : pc[c] = "idle" => ~ENABLED Rejected(c)

\* C16: write_command never compares the reply's command_number with the
\* instruction it sent: two calls with the same instruction whose replies differ
\* at most in command_number end the same way, and a reply with an Ok status
\* that echoes another instruction number is accepted and its operand decoded.
C16_CommandNumberIgnored ==
    \A c \in Callers :
        reply[c] # None =>
            /\ \A d \in Callers :
                   /\ reply[d] # None
                   /\ instr[d] = instr[c]
                   /\ reply[d].status = reply[c].status
                   /\ reply[d].operand = reply[c].operand
                   => result[d] = result[c] /\ pc[d] = pc[c]
            /\ reply[c].command_number # InstructionNumber(instr[c]) /\ IsOk(reply[c].status) =>
                   /\ decodeAttempted[c]
                   /\ pc[c] = "idle" => result[c].kind = "Ok"

C16_Witness ==
    \E c \in Callers, d \in Callers :
        /\ instr[c] = TmcmGAP(0, "MicrostepResolution")
        /\ instr[d] = instr[c]
        /\ reply[c] = [status |-> StatusOk("Ok"), command_number |-> 5,
                       operand |-> <<4, 0, 0, 0>>]
        /\ reply[d] = [reply[c] EXCEPT !.command_number = 6]
        /\ result[c] = Ok("Micro16")
        /\ result[d] = Ok("Micro16")

====
